---------------------------- MODULE Spec2Model ----------------------------
(***************************************************************************)
(* A model of pandas_aux.py: a flat library of table-cleaning functions    *)
(* over pandas DataFrames, called one after the other by an external       *)
(* caller.                                                                 *)
(*                                                                         *)
(* A Python string is a sequence of characters; a character is a one-token *)
(* TLA+ string ("a", " ", "\t"); the two non-ASCII characters of the model *)
(* are written by their code points, "U+00E9" (e acute, a letter) and      *)
(* "U+0663" (ARABIC-INDIC DIGIT THREE, a decimal digit).                   *)
(*                                                                         *)
(* A cell is one of                                                        *)
(*   [t |-> "str",   s |-> <<chars>>]   a Python str                       *)
(*   [t |-> "int",   n |-> i]           a Python int                       *)
(*   [t |-> "float", f |-> i]           the float i/10 (one decimal place) *)
(*   [t |-> "bool",  b |-> TRUE]        a Python bool                      *)
(*   [t |-> "nan"]                      float('nan')                       *)
(*   [t |-> "none"]                     None                               *)
(* A table is [cols, dtypes, index, rows]: the column labels, the dtype of *)
(* each column, the row labels (the DataFrame's index) and the rows, each  *)
(* a sequence of cells aligned with cols.                                  *)
(***************************************************************************)
EXTENDS Integers, Sequences, FiniteSets, TLC

VARIABLES
    df,     \* the table object the caller passed to the last call, as it is after the call
    prev,   \* the same object's content as it was when the call was made
    out,    \* what the last call returned or raised
    call,   \* the last call: the function and its arguments
    disk,   \* the workbook file the last successful dataframe_to_excel wrote
    ncalls  \* how many calls the caller has made

vars == <<df, prev, out, call, disk, ncalls>>

(***************************************************************************)
(* Bounds of the model.                                                    *)
(***************************************************************************)
MaxStrLen == 3
MaxSize == 4
MaxRows == 3
SessionRows == 1
MaxCalls == 2
MaxExcelCols == 27
MaxExcelRows == 2

(***************************************************************************)
(* Characters.                                                             *)
(***************************************************************************)
Range(s) == {s[i] : i \in DOMAIN s}

AsciiDigits == {"0", "1", "2", "3", "4", "5", "6", "7", "8", "9"}

LowerSeq == <<"a", "b", "c", "d", "e", "f", "g", "h", "i", "j", "k", "l", "m",
              "n", "o", "p", "q", "r", "s", "t", "u", "v", "w", "x", "y", "z">>

UpperSeq == <<"A", "B", "C", "D", "E", "F", "G", "H", "I", "J", "K", "L", "M",
              "N", "O", "P", "Q", "R", "S", "T", "U", "V", "W", "X", "Y", "Z">>

AsciiLetters == Range(LowerSeq) \cup Range(UpperSeq)

\* str.isalpha outside ASCII, and str.isdecimal outside ASCII
UnicodeLetters == {"U+00E9"}
UnicodeDigits == {"U+0663"}

\* what the regular expression class \s matches and str.strip() removes
Whitespace == {" ", "\t", "\n"}

\* \d of a str pattern: every Unicode decimal digit; \D is its complement
IsDigit(c) == c \in AsciiDigits \cup UnicodeDigits

IsLetter(c) == c \in AsciiLetters \cup UnicodeLetters

\* the class [a-zA-Z0-9\s]
InCleanClass(c) == c \in AsciiLetters \cup AsciiDigits \cup Whitespace

\* str.lower() of one character
LowerChar(c) ==
    IF \E i \in DOMAIN UpperSeq : UpperSeq[i] = c
    THEN LowerSeq[CHOOSE i \in DOMAIN UpperSeq : UpperSeq[i] = c]
    ELSE c

(***************************************************************************)
(* Strings.                                                                *)
(***************************************************************************)
Min(a, b) == IF a < b THEN a ELSE b
Max(a, b) == IF a > b THEN a ELSE b

RECURSIVE lstrip(_)
lstrip(s) == IF s # <<>> /\ s[1] \in Whitespace THEN lstrip(Tail(s)) ELSE s

RECURSIVE rstrip(_)
rstrip(s) ==
    IF s # <<>> /\ s[Len(s)] \in Whitespace
    THEN rstrip(SubSeq(s, 1, Len(s) - 1))
    ELSE s

\* str.strip()
strip(s) == rstrip(lstrip(s))

\* str.lower()
lower(s) == [i \in DOMAIN s |-> LowerChar(s[i])]

\* value.replace('&', 'E')
replace_amp(s) == [i \in DOMAIN s |-> IF s[i] = "&" THEN "E" ELSE s[i]]

\* re.sub(r'[^a-zA-Z0-9\s]', '', value)
sub_not_clean(s) == SelectSeq(s, InCleanClass)

\* re.sub(r'\D', '', value)
sub_non_digits(s) == SelectSeq(s, IsDigit)

Zeros(n) == [i \in 1..n |-> "0"]

\* str.zfill(width): zeros go after a leading sign
zfill(s, width) ==
    IF Len(s) >= width THEN s
    ELSE IF s # <<>> /\ s[1] \in {"+", "-"}
         THEN <<s[1]>> \o Zeros(width - Len(s)) \o Tail(s)
         ELSE Zeros(width - Len(s)) \o s

\* the slice s[:n]
slice_to(s, n) ==
    IF n >= 0 THEN SubSeq(s, 1, Min(n, Len(s)))
    ELSE SubSeq(s, 1, Max(0, Len(s) + n))

DigitSeq == <<"0", "1", "2", "3", "4", "5", "6", "7", "8", "9">>

RECURSIVE NatStr(_)
NatStr(n) ==
    IF n < 10 THEN <<DigitSeq[n + 1]>>
    ELSE NatStr(n \div 10) \o <<DigitSeq[(n % 10) + 1]>>

\* str(i) of an int
IntStr(i) == IF i < 0 THEN <<"-">> \o NatStr(-i) ELSE NatStr(i)

\* str(x) of the float f/10
FloatStr(f) ==
    LET a == IF f < 0 THEN -f ELSE f
    IN  (IF f < 0 THEN <<"-">> ELSE <<>>)
            \o NatStr(a \div 10) \o <<".">> \o <<DigitSeq[(a % 10) + 1]>>

(***************************************************************************)
(* Cells.                                                                  *)
(***************************************************************************)
StrCell(s) == [t |-> "str", s |-> s]
IntCell(i) == [t |-> "int", n |-> i]
FloatCell(f) == [t |-> "float", f |-> f]
BoolCell(b) == [t |-> "bool", b |-> b]
NaN == [t |-> "nan"]
None == [t |-> "none"]

\* pd.isna(x)
isna(c) == c.t \in {"nan", "none"}

\* isinstance(x, str)
is_str(c) == c.t = "str"

\* str(x)
pystr(c) ==
    CASE c.t = "str" -> c.s
      [] c.t = "int" -> IntStr(c.n)
      [] c.t = "float" -> FloatStr(c.f)
      [] c.t = "bool" -> IF c.b THEN <<"T", "r", "u", "e">> ELSE <<"F", "a", "l", "s", "e">>
      [] c.t = "nan" -> <<"n", "a", "n">>
      [] c.t = "none" -> <<"N", "o", "n", "e">>

IsNumber(c) == c.t \in {"int", "float", "bool"}

\* a number's value in tenths
Tenths(c) ==
    CASE c.t = "int" -> 10 * c.n
      [] c.t = "float" -> c.f
      [] c.t = "bool" -> IF c.b THEN 10 ELSE 0

\* Python's x == y
pyeq(x, y) ==
    CASE is_str(x) /\ is_str(y) -> x.s = y.s
      [] IsNumber(x) /\ IsNumber(y) -> Tenths(x) = Tenths(y)
      [] x.t = "none" /\ y.t = "none" -> TRUE
      [] OTHER -> FALSE

\* bool(x)
truthy(c) ==
    CASE c.t = "str" -> c.s # <<>>
      [] c.t = "int" -> c.n # 0
      [] c.t = "float" -> c.f # 0
      [] c.t = "bool" -> c.b
      [] c.t = "nan" -> TRUE
      [] c.t = "none" -> FALSE

(***************************************************************************)
(* Tables.                                                                 *)
(***************************************************************************)
NoTable == [cols |-> <<>>, dtypes |-> <<>>, index |-> <<>>, rows |-> <<>>]

\* the labels `column in df.columns` is true of
Columns(T) == Range(T.cols)

NRows(T) == Len(T.rows)

ColPos(T, c) == CHOOSE j \in DOMAIN T.cols : T.cols[j] = c

\* df[column], a column of a table whose labels are distinct
Column(T, c) == [i \in DOMAIN T.rows |-> T.rows[i][ColPos(T, c)]]

DtypeOf(T, c) == T.dtypes[ColPos(T, c)]

\* df[column] = values
SetColumn(T, c, vals, dtype) ==
    [T EXCEPT !.rows = [i \in DOMAIN T.rows |->
                            [T.rows[i] EXCEPT ![ColPos(T, c)] = vals[i]]],
              !.dtypes = [@ EXCEPT ![ColPos(T, c)] = dtype]]

\* df[mask]: the rows at the positions where the boolean mask is true, labels kept
TakeRows(T, mask) ==
    LET P == SelectSeq([i \in 1..NRows(T) |-> i], LAMBDA i : mask[i])
    IN  [T EXCEPT !.index = [k \in DOMAIN P |-> T.index[P[k]]],
                  !.rows = [k \in DOMAIN P |-> T.rows[P[k]]]]

\* df.columns.is_unique
UniqueColumns(T) == Cardinality(Range(T.cols)) = Len(T.cols)

\* the positions of the columns carrying the label c
Positions(T, c) == {j \in DOMAIN T.cols : T.cols[j] = c}

\* df[c] is a DataFrame, not a Series: several columns carry the label.  The
\* tables of this model have two columns at most, so that a label carried twice
\* is the label of every column.
IsFrame(T, c) == Cardinality(Positions(T, c)) > 1

\* what a call gives back: a table, None, or an exception
Returned(T) == [kind |-> "table", table |-> T]
ReturnedNone == [kind |-> "None", table |-> NoTable]
ReturnedPath == [kind |-> "path", table |-> NoTable]
Raised(e) == [kind |-> e, table |-> NoTable]

\* Series.astype(str): str() of every element
astype_str(vals) == [i \in DOMAIN vals |-> StrCell(pystr(vals[i]))]

\* df[c] = df[c].astype(str) where df[c] is a DataFrame: every column carrying
\* the label is replaced by its strings
astype_str_frame(T, c) ==
    [T EXCEPT !.rows = [i \in DOMAIN T.rows |->
                            [j \in DOMAIN T.cols |->
                                IF j \in Positions(T, c)
                                THEN StrCell(pystr(T.rows[i][j]))
                                ELSE T.rows[i][j]]],
              !.dtypes = [j \in DOMAIN T.cols |->
                            IF j \in Positions(T, c) THEN "object" ELSE T.dtypes[j]]]

\* DataFrame.where(cond): a cell whose condition is false becomes NaN; a column
\* of integers that gets a NaN becomes float64, one of booleans object
where(T, cond) ==
    LET whole(j) == \A i \in DOMAIN T.rows : cond[i][j]
    IN  [T EXCEPT !.rows = [i \in DOMAIN T.rows |->
                                [j \in DOMAIN T.cols |->
                                    IF ~ cond[i][j] THEN NaN
                                    ELSE IF T.dtypes[j] = "int64" /\ ~ whole(j)
                                    THEN FloatCell(10 * T.rows[i][j].n)
                                    ELSE T.rows[i][j]]],
                  !.dtypes = [j \in DOMAIN T.cols |->
                                IF whole(j) THEN T.dtypes[j]
                                ELSE IF T.dtypes[j] = "int64" THEN "float64"
                                ELSE IF T.dtypes[j] = "bool" THEN "object"
                                ELSE T.dtypes[j]]]

\* The dtype inference Series.apply ends with (lib.maybe_convert_objects): an
\* all-int result is int64, an all-bool one bool, numbers with a float or a missing
\* value are float64 (ints become floats, None becomes NaN); anything else object.
ConvertedDtype(vals) ==
    LET ts == {vals[i].t : i \in DOMAIN vals}
    IN  IF ts = {} \/ "str" \in ts THEN "object"
        ELSE IF ts = {"bool"} THEN "bool"
        ELSE IF "bool" \in ts THEN "object"
        ELSE IF ts = {"int"} THEN "int64"
        ELSE IF ts = {"none"} THEN "object"
        ELSE "float64"

ConvertedValues(vals) ==
    IF ConvertedDtype(vals) = "float64"
    THEN [i \in DOMAIN vals |->
            CASE vals[i].t = "int" -> FloatCell(10 * vals[i].n)
              [] vals[i].t = "none" -> NaN
              [] OTHER -> vals[i]]
    ELSE vals

\* Series.apply(f): f on every element, then the inference; an empty Series keeps
\* its dtype
ApplyDtype(T, c, vals) ==
    IF NRows(T) = 0 THEN DtypeOf(T, c) ELSE ConvertedDtype(vals)

(***************************************************************************)
(* The library's functions.  Each is [df |-> the caller's table after the  *)
(* call, out |-> what the call returns or raises].                         *)
(***************************************************************************)

\* the key equality of drop_duplicates: == of the values, and NaN like NaN
same_key(x, y) == pyeq(x, y) \/ (x.t = "nan" /\ y.t = "nan")

\* keep='last'
keep_last(T, column, i) ==
    ~ \E j \in DOMAIN T.rows : j > i /\ same_key(Column(T, column)[j], Column(T, column)[i])

\* keep='first': no earlier row carries the value
keep_first(T, column, i) ==
    ~ \E j \in DOMAIN T.rows : j < i /\ same_key(Column(T, column)[j], Column(T, column)[i])

\* the keys of DataFrame.duplicated on a table whose labels repeat: the values are
\* factorized, and the missing values of a column, NaN or None, are one key
same_key_na(x, y) == same_key(x, y) \/ (isna(x) /\ isna(y))

\* keep='first' on a table whose labels repeat: a row's key is its values in
\* every column carrying the label
keep_first_frame(T, column, i) ==
    ~ \E j \in DOMAIN T.rows :
        /\ j < i
        /\ \A p \in Positions(T, column) : same_key_na(T.rows[j][p], T.rows[i][p])

remove_duplicates(T, column) ==
    IF column \notin Columns(T)
    THEN [df |-> T, out |-> Raised("ValueError")]
    ELSE IF ~ UniqueColumns(T)
    THEN [df |-> T,
          out |-> Returned(TakeRows(T,
                    [i \in DOMAIN T.rows |-> keep_first_frame(T, column, i)]))]
    ELSE [df |-> T,
          out |-> Returned(TakeRows(T, [i \in DOMAIN T.rows |-> keep_first(T, column, i)]))]

\* The .str accessor's validation: the values that are not missing must be
\* strings, or of mixed types (lib.infer_dtype gives "string", "empty", "mixed" or
\* "mixed-integer"); a column of numbers only, or of booleans only, is refused.
str_accessor_ok(vals) ==
    LET ts == {vals[i].t : i \in DOMAIN vals} \ {"nan", "none"}
    IN  ts = {} \/ "str" \in ts \/ ("bool" \in ts /\ ts # {"bool"})

\* a strip that takes one whitespace character off each end
strip_one(c) ==
    IF is_str(c)
    THEN LET l == IF c.s # <<>> /\ c.s[1] \in Whitespace THEN Tail(c.s) ELSE c.s
         IN  StrCell(IF l # <<>> /\ l[Len(l)] \in Whitespace
                     THEN SubSeq(l, 1, Len(l) - 1) ELSE l)
    ELSE IF isna(c) THEN c ELSE NaN

\* Series.str.strip() on one element: a string is stripped, a missing value is
\* kept, any other value becomes NaN
str_strip(c) ==
    IF is_str(c) THEN StrCell(strip(c.s))
    ELSE IF isna(c) THEN c ELSE NaN

\* Series.str.strip() on a column (the accessor's _str_map): every element is
\* stripped and, unless all the values are missing, the result goes through
\* lib.maybe_convert_objects: a column that held no string comes back as float64,
\* all NaN (None becomes NaN); one that holds a string stays object
str_map(vals) ==
    LET r == [i \in DOMAIN vals |-> str_strip(vals[i])]
    IN  IF \A i \in DOMAIN vals : isna(vals[i])
        THEN [values |-> r, dtype |-> "object"]
        ELSE [values |-> ConvertedValues(r), dtype |-> ConvertedDtype(r)]

strip_dataframe(T) ==
    IF T.cols = <<>> \/ NRows(T) = 0
    THEN [df |-> T, out |-> Returned(T)]
    ELSE IF \E j \in DOMAIN T.cols :
                /\ T.dtypes[j] = "object"
                /\ ~ str_accessor_ok([i \in DOMAIN T.rows |-> T.rows[i][j]])
    THEN [df |-> T, out |-> Raised("AttributeError")]
    ELSE LET col(j) == str_map([i \in DOMAIN T.rows |-> T.rows[i][j]])
         IN  [df |-> T,
              out |-> Returned([T EXCEPT
                        !.rows = [i \in DOMAIN T.rows |->
                                    [j \in DOMAIN T.cols |->
                                        IF T.dtypes[j] = "object"
                                        THEN col(j).values[i]
                                        ELSE T.rows[i][j]]],
                        !.dtypes = [j \in DOMAIN T.cols |->
                                        IF T.dtypes[j] = "object"
                                        THEN col(j).dtype
                                        ELSE T.dtypes[j]]])]

\* one element of df[column] == parameter: a missing value equals nothing
elem_eq(c, parameter) == ~ isna(c) /\ ~ isna(parameter) /\ pyeq(c, parameter)

\* Where df[column] is a DataFrame, df[column] == parameter is a DataFrame of
\* booleans and df[...] is df.where(...): every row stays, the cells that differ
\* from the parameter become NaN.
filter_dataframe(T, column, parameter) ==
    IF column \notin Columns(T)
    THEN [df |-> T, out |-> ReturnedNone]
    ELSE IF IsFrame(T, column)
    THEN [df |-> T,
          out |-> Returned(where(T,
                    [i \in DOMAIN T.rows |->
                        [j \in DOMAIN T.cols |->
                            j \in Positions(T, column)
                                /\ elem_eq(T.rows[i][j], parameter)]]))]
    ELSE [df |-> T,
          out |-> Returned(TakeRows(T,
                    [i \in DOMAIN T.rows |-> elem_eq(Column(T, column)[i], parameter)]))]

clean_text(c) ==
    IF ~ is_str(c) THEN c ELSE StrCell(sub_not_clean(replace_amp(c.s)))

\* df.loc[:, column] = ... writes into the caller's table, which is also returned.
\* Where df[column] is a DataFrame, apply hands clean_text whole columns, which are
\* no strings and come back as they are: the table is written with its own values.
clean_special_characters(T, column) ==
    IF column \notin Columns(T)
    THEN [df |-> T, out |-> ReturnedNone]
    ELSE IF IsFrame(T, column)
    THEN [df |-> T, out |-> Returned(T)]
    ELSE LET vals == [i \in DOMAIN T.rows |-> clean_text(Column(T, column)[i])]
             new == SetColumn(T, column, ConvertedValues(vals), DtypeOf(T, column))
         IN  [df |-> new, out |-> Returned(new)]

lower_cell(c) == IF is_str(c) THEN StrCell(lower(c.s)) ELSE c

\* df[column] = ... replaces the column of the caller's table, which is also returned
\* Where df[column] is a DataFrame, the lambda gets whole columns, which are no
\* strings and come back as they are.
lowercase_dataframe(T, column) ==
    IF column \notin Columns(T)
    THEN [df |-> T, out |-> ReturnedNone]
    ELSE IF IsFrame(T, column)
    THEN [df |-> T, out |-> Returned(T)]
    ELSE LET vals == [i \in DOMAIN T.rows |-> lower_cell(Column(T, column)[i])]
             new == SetColumn(T, column, ConvertedValues(vals),
                              ApplyDtype(T, column, vals))
         IN  [df |-> new, out |-> Returned(new)]

\* process(doc) without the cut to the first `size` digits
process_no_trim(doc, size) ==
    IF isna(doc) \/ lower(strip(pystr(doc))) \in {<<>>, <<"n", "a", "n">>, <<"n", "o", "n", "e">>}
    THEN None
    ELSE LET doc_numeric == sub_non_digits(strip(pystr(doc)))
         IN  StrCell(IF Len(doc_numeric) < size THEN zfill(doc_numeric, size)
                     ELSE doc_numeric)

\* process(doc) of format_document
process(doc, size) ==
    IF isna(doc) \/ lower(strip(pystr(doc))) \in {<<>>, <<"n", "a", "n">>, <<"n", "o", "n", "e">>}
    THEN None
    ELSE LET doc_numeric == sub_non_digits(strip(pystr(doc)))
         IN  StrCell(IF Len(doc_numeric) < size THEN zfill(doc_numeric, size)
                     ELSE IF Len(doc_numeric) > size THEN slice_to(doc_numeric, size)
                     ELSE doc_numeric)

\* Where df[column] is a DataFrame, process gets a whole column and
\* `pd.isna(doc) or ...` raises ValueError (the truth value of a Series); on a
\* table without rows DataFrame.apply calls nothing and gives the columns back.
format_document(T, column, size) ==
    IF column \notin Columns(T)
    THEN [df |-> T, out |-> ReturnedNone]
    ELSE IF IsFrame(T, column)
    THEN [df |-> T,
          out |-> IF NRows(T) = 0 THEN Returned(T) ELSE Raised("ValueError")]
    ELSE LET vals == [i \in DOMAIN T.rows |-> process(Column(T, column)[i], size)]
         IN  [df |-> T,
              out |-> Returned(SetColumn(T, column, ConvertedValues(vals),
                                         ApplyDtype(T, column, vals)))]

\* df.drop(columns=[column]): every column carrying the label goes
drop_column(T, column) ==
    IF column \in Columns(T)
    THEN LET P == SelectSeq([j \in DOMAIN T.cols |-> j], LAMBDA j : T.cols[j] # column)
         IN  [df |-> T,
              out |-> Returned([T EXCEPT
                        !.cols = [k \in DOMAIN P |-> T.cols[P[k]]],
                        !.dtypes = [k \in DOMAIN P |-> T.dtypes[P[k]]],
                        !.rows = [i \in DOMAIN T.rows |->
                                    [k \in DOMAIN P |-> T.rows[i][P[k]]]]])]
    ELSE [df |-> T, out |-> ReturnedNone]

length_equals(s, char_count) == Len(s) = char_count

\* one element of df[column].apply(len) != char_count
length_differs(s, char_count) == Len(s) # char_count

\* df[column] = df[column].astype(str) writes into the caller's table; the rows
\* returned are taken from it
\* Where df[column] is a DataFrame, the columns are stringified in the caller's
\* table, apply(len) gives one number for each column, and the mask, labelled by
\* the columns, does not align with the rows: IndexingError, unless there is no
\* row to align.
filter_by_different_char_count(T, column, char_count) ==
    IF column \notin Columns(T)
    THEN [df |-> T, out |-> Raised("ValueError")]
    ELSE IF IsFrame(T, column)
    THEN [df |-> astype_str_frame(T, column),
          out |-> IF NRows(T) = 0 THEN Returned(astype_str_frame(T, column))
                  ELSE Raised("IndexingError")]
    ELSE LET new == SetColumn(T, column, astype_str(Column(T, column)), "object")
             filter_mask == [i \in DOMAIN new.rows |->
                                length_differs(Column(new, column)[i].s, char_count)]
         IN  [df |-> new, out |-> Returned(TakeRows(new, filter_mask))]

\* limit_column_size without df.copy()
limit_in_place(T, column, limit) ==
    IF column \notin Columns(T)
    THEN [df |-> T, out |-> Raised("ValueError")]
    ELSE LET strs == astype_str(Column(T, column))
             vals == [i \in DOMAIN strs |->
                        IF truthy(strs[i]) THEN StrCell(slice_to(strs[i].s, limit))
                        ELSE strs[i]]
             new == SetColumn(T, column, vals, "object")
         IN  [df |-> new, out |-> Returned(new)]

\* Where df[column] is a DataFrame, the lambda gets a whole column and `if x`
\* raises ValueError; on a table without rows the stringified copy is returned.
limit_column_size(T, column, limit) ==
    IF column \notin Columns(T)
    THEN [df |-> T, out |-> Raised("ValueError")]
    ELSE IF IsFrame(T, column)
    THEN [df |-> T,
          out |-> IF NRows(T) = 0 THEN Returned(astype_str_frame(T, column))
                  ELSE Raised("ValueError")]
    ELSE LET strs == astype_str(Column(T, column))
             vals == [i \in DOMAIN strs |->
                        IF truthy(strs[i]) THEN StrCell(slice_to(strs[i].s, limit))
                        ELSE strs[i]]
         IN  [df |-> T, out |-> Returned(SetColumn(T, column, vals, "object"))]

\* the docstring's 12 digits: padded with zeros, cut to 12
process_phone_fixed(phone) ==
    StrCell(slice_to(zfill(sub_non_digits(phone.s), 12), 12))

\* process_phone(phone) of format_phone_number
process_phone(phone) == StrCell(sub_non_digits(phone.s))

\* Where df[column] is a DataFrame, process_phone gets a whole column and re.sub
\* raises TypeError; on a table without rows the stringified copy is returned.
format_phone_number(T, column) ==
    IF column \notin Columns(T)
    THEN [df |-> T, out |-> ReturnedNone]
    ELSE IF IsFrame(T, column)
    THEN [df |-> T,
          out |-> IF NRows(T) = 0 THEN Returned(astype_str_frame(T, column))
                  ELSE Raised("TypeError")]
    ELSE LET strs == astype_str(Column(T, column))
             vals == [i \in DOMAIN strs |-> process_phone(strs[i])]
         IN  [df |-> T, out |-> Returned(SetColumn(T, column, vals, "object"))]

\* rename_column without its check: df.rename ignores a label that is missing
rename_column_unchecked(T, current_name, new_name) ==
    [df |-> T,
     out |-> Returned([T EXCEPT !.cols =
                [j \in DOMAIN T.cols |->
                    IF T.cols[j] = current_name THEN new_name ELSE T.cols[j]]])]

\* df.rename(columns={current_name: new_name}): every column carrying the label
\* is renamed; a missing column raises inside the try, and the except clause
\* prints and falls off the end of the function
rename_column(T, current_name, new_name) ==
    IF current_name \notin Columns(T)
    THEN [df |-> T, out |-> ReturnedNone]
    ELSE [df |-> T,
          out |-> Returned([T EXCEPT !.cols =
                    [j \in DOMAIN T.cols |->
                        IF T.cols[j] = current_name THEN new_name ELSE T.cols[j]]])]

\* chr(n) for the codes from 64 ('@') to 122 ('z'); "U+005C" is the backslash
\* and "U+0060" the grave accent
AsciiFrom64 == <<"@">> \o UpperSeq \o <<"[", "U+005C", "]", "^", "_", "U+0060">> \o LowerSeq

chr(n) == AsciiFrom64[n - 63]

\* chr(65 + len(df.columns) - 1)
last_column(T) == chr(65 + Len(T.cols) - 1)

\* f"A1:{chr(65 + len(df.columns) - 1)}{num_rows}", num_rows = len(df) + 1
table_ref(T) == <<"A", "1", ":">> \o <<last_column(T)>> \o IntStr(NRows(T) + 1)

RECURSIVE LeadingLetters(_)
LeadingLetters(s) ==
    IF s # <<>> /\ s[1] \in AsciiLetters THEN 1 + LeadingLetters(Tail(s)) ELSE 0

\* What saving the workbook accepts as the table's ref (openpyxl's
\* range_boundaries, reached from wb.save): after "A1:", at most three letters and
\* then digits only.
valid_ref(ref) ==
    LET rest == SubSeq(ref, 4, Len(ref))
        k == LeadingLetters(rest)
    IN  /\ k <= 3
        /\ \A i \in (k + 1)..Len(rest) : rest[i] \in AsciiDigits

\* the cells of worksheet column j that `if cell.value` lets through: the header,
\* then the data
shown_lengths(T, j) ==
    (IF T.cols[j] # "" THEN {Len(T.cols[j])} ELSE {})
        \cup {Len(pystr(T.rows[i][j])) : i \in {i \in DOMAIN T.rows : truthy(T.rows[i][j])}}

SetMax(S) == CHOOSE m \in S : \A x \in S : x <= m

NoFile == [exists |-> FALSE, title |-> "", header |-> <<>>, data |-> <<>>,
           displayName |-> "", ref |-> <<>>, widths |-> <<>>]

\* io_ok: os.makedirs and wb.save meet no I/O error.  Any exception is caught and
\* None returned: max() of a column with no shown cell, the invalid ref at save.
dataframe_to_excel(T, io_ok) ==
    IF \/ ~ io_ok
       \/ \E j \in DOMAIN T.cols : shown_lengths(T, j) = {}
       \/ ~ valid_ref(table_ref(T))
    THEN [df |-> T, out |-> ReturnedNone, disk |-> NoFile]
    ELSE [df |-> T, out |-> ReturnedPath,
          disk |-> [exists |-> TRUE, title |-> "extracted_data",
                    header |-> T.cols, data |-> T.rows,
                    displayName |-> "DataTable", ref |-> table_ref(T),
                    widths |-> [j \in DOMAIN T.cols |-> SetMax(shown_lengths(T, j)) + 2]]]

(***************************************************************************)
(* The caller: one call after the other, each on the table the caller      *)
(* holds or on the table the last call returned.                           *)
(***************************************************************************)
NotCalled == [kind |-> "-", table |-> NoTable]

NoCall == [op |-> "-", column |-> "", n |-> 0, parameter |-> None,
           new_name |-> "", io_ok |-> TRUE]

\* the caller is between two calls
Idle == call.op = "-"

\* the table the next call is made on
Inputs == IF Idle /\ ncalls < MaxCalls THEN {df} ELSE {}

ColArgs == {"a", "b", "z"}
NewNames == {"a", "b", "c"}
\* sizes up to the bound, and the 11 digits of a CPF
Sizes == (0..MaxSize) \cup {11}
Limits == -1..MaxSize
\* the sizes and limits a session draws from
SessionSizes == {0, 2}
SessionLimits == {-1, 2}
Parameters == {StrCell(<<"1", "2">>), IntCell(1), NaN}

Done(T, r, c) ==
    /\ prev' = T
    /\ df' = r.df
    /\ out' = r.out
    /\ call' = c
    /\ ncalls' = ncalls + 1
    /\ UNCHANGED disk

CallRemoveDuplicates ==
    \E T \in Inputs, column \in ColArgs :
        Done(T, remove_duplicates(T, column),
             [NoCall EXCEPT !.op = "remove_duplicates", !.column = column])

CallStripDataframe ==
    \E T \in Inputs :
        Done(T, strip_dataframe(T), [NoCall EXCEPT !.op = "strip_dataframe"])

CallFilterDataframe ==
    \E T \in Inputs, column \in ColArgs, parameter \in Parameters :
        Done(T, filter_dataframe(T, column, parameter),
             [NoCall EXCEPT !.op = "filter_dataframe", !.column = column,
                            !.parameter = parameter])

CallCleanSpecialCharacters ==
    \E T \in Inputs, column \in ColArgs :
        Done(T, clean_special_characters(T, column),
             [NoCall EXCEPT !.op = "clean_special_characters", !.column = column])

CallLowercaseDataframe ==
    \E T \in Inputs, column \in ColArgs :
        Done(T, lowercase_dataframe(T, column),
             [NoCall EXCEPT !.op = "lowercase_dataframe", !.column = column])

FormatDocumentCalls(sizes) ==
    \E T \in Inputs, column \in ColArgs, size \in sizes :
        Done(T, format_document(T, column, size),
             [NoCall EXCEPT !.op = "format_document", !.column = column, !.n = size])

CallFormatDocument == FormatDocumentCalls(Sizes)

SessionFormatDocument == FormatDocumentCalls(SessionSizes)

CallDropColumn ==
    \E T \in Inputs, column \in ColArgs :
        Done(T, drop_column(T, column),
             [NoCall EXCEPT !.op = "drop_column", !.column = column])

FilterByDifferentCharCountCalls(sizes) ==
    \E T \in Inputs, column \in ColArgs, char_count \in sizes :
        Done(T, filter_by_different_char_count(T, column, char_count),
             [NoCall EXCEPT !.op = "filter_by_different_char_count",
                            !.column = column, !.n = char_count])

CallFilterByDifferentCharCount == FilterByDifferentCharCountCalls(Sizes)

SessionFilterByDifferentCharCount == FilterByDifferentCharCountCalls(SessionSizes)

LimitColumnSizeCalls(limits) ==
    \E T \in Inputs, column \in ColArgs, limit \in limits :
        Done(T, limit_column_size(T, column, limit),
             [NoCall EXCEPT !.op = "limit_column_size", !.column = column, !.n = limit])

CallLimitColumnSize == LimitColumnSizeCalls(Limits)

SessionLimitColumnSize == LimitColumnSizeCalls(SessionLimits)

CallFormatPhoneNumber ==
    \E T \in Inputs, column \in ColArgs :
        Done(T, format_phone_number(T, column),
             [NoCall EXCEPT !.op = "format_phone_number", !.column = column])

CallRenameColumn ==
    \E T \in Inputs, current_name \in ColArgs, new_name \in NewNames :
        Done(T, rename_column(T, current_name, new_name),
             [NoCall EXCEPT !.op = "rename_column", !.column = current_name,
                            !.new_name = new_name])

CallDataframeToExcel ==
    \E T \in Inputs, io_ok \in BOOLEAN :
        LET r == dataframe_to_excel(T, io_ok)
        IN  /\ prev' = T
            /\ df' = r.df
            /\ out' = r.out
            /\ call' = [NoCall EXCEPT !.op = "dataframe_to_excel", !.io_ok = io_ok]
            /\ disk' = IF r.out.kind = "path" THEN r.disk ELSE disk
            /\ ncalls' = ncalls + 1

\* The caller goes on with the table it passed (as the call left it) ...
CallerKeeps ==
    /\ ~ Idle
    /\ prev' = df
    /\ out' = NotCalled
    /\ call' = NoCall
    /\ UNCHANGED <<df, disk, ncalls>>

\* ... or with the table the call returned: df = f(df, ...)
CallerRebinds ==
    /\ ~ Idle
    /\ out.kind = "table"
    /\ df' = out.table
    /\ prev' = out.table
    /\ out' = NotCalled
    /\ call' = NoCall
    /\ UNCHANGED <<disk, ncalls>>

(***************************************************************************)
(* The tables a run starts from.                                           *)
(***************************************************************************)
RangeIndex(n) == [i \in 1..n |-> i - 1]

\* the table of the columns cs, each [name, dtype, vals], vals of length n
MakeTable(cs, n) ==
    [cols |-> [j \in DOMAIN cs |-> cs[j].name],
     dtypes |-> [j \in DOMAIN cs |-> cs[j].dtype],
     index |-> RangeIndex(n),
     rows |-> [i \in 1..n |-> [j \in DOMAIN cs |-> cs[j].vals[i]]]]

\* the dtypes a column of these values can have: object holds anything
DtypesFor(vals) ==
    LET ts == {vals[i].t : i \in DOMAIN vals}
    IN  {"object"}
            \cup (IF ts = {"int"} THEN {"int64"} ELSE {})
            \cup (IF ts # {} /\ ts \subseteq {"float", "nan"} THEN {"float64"} ELSE {})
            \cup (IF ts = {"bool"} THEN {"bool"} ELSE {})

ColumnsOver(name, cells, n) ==
    {[name |-> name, dtype |-> d, vals |-> v] :
        <<v, d>> \in {p \in [1..n -> cells] \X {"object", "int64", "float64", "bool"} :
                        p[2] \in DtypesFor(p[1])}}

Start(T) ==
    /\ df = T
    /\ prev = T
    /\ out = NotCalled
    /\ call = NoCall
    /\ disk = NoFile
    /\ ncalls = 0

\* A session: tables of one or two columns named "a" and "b", a text with
\* whitespace, a capital and an ampersand, a number and a missing value in them.
SessionCells == {StrCell(<<" ", "A", "&">>), IntCell(12), NaN}

SessionTables ==
    UNION {
        {MakeTable(<<c>>, n) :
            c \in ColumnsOver("a", SessionCells, n) \cup ColumnsOver("b", SessionCells, n)}
        \cup
        {MakeTable(cs, n) :
            cs \in (ColumnsOver("a", SessionCells, n) \X ColumnsOver("b", SessionCells, n))
                   \cup (ColumnsOver("b", SessionCells, n) \X ColumnsOver("a", SessionCells, n))}
        : n \in 1..SessionRows}

Init == \E T \in SessionTables : Start(T)

Next ==
    \/ CallRemoveDuplicates
    \/ CallStripDataframe
    \/ CallFilterDataframe
    \/ CallCleanSpecialCharacters
    \/ CallLowercaseDataframe
    \/ SessionFormatDocument
    \/ CallDropColumn
    \/ SessionFilterByDifferentCharCount
    \/ SessionLimitColumnSize
    \/ CallFormatPhoneNumber
    \/ CallRenameColumn
    \/ CallerKeeps
    \/ CallerRebinds

Spec == Init /\ [][Next]_vars

\* One value: a table of one column "a" and one row, holding any string of at
\* most MaxStrLen characters of Alphabet, one of the longer strings below, or a
\* value that is no string.
Alphabet == {" ", "7", "n", "a", "&", "#", "U+00E9", "U+0663"}

LongStrings ==
    {<<" ", "n", "a", "n">>, <<"N", "a", "N">>, <<"N", "o", "n", "e">>,
     <<"n", "O", "N", "E", "\t">>, <<"n", "o", "n", "e", "7">>,
     <<"1", "2", "3">>,
     <<"1", "2", "3", "4", "5", "6", "7", "8", "9", "0", "1", "2">>,
     <<"(", "1", "1", ")", " ", "9", "8", "8", "8", "8", "-", "7", "7", "7", "7">>,
     <<"A", "&", "B", " ", "#", "1", "!">>,
     <<"J", "o", "s", "U+00E9", "\n">>}

ValueCells ==
    {StrCell(s) : s \in UNION {[1..k -> Alphabet] : k \in 0..MaxStrLen} \cup LongStrings}
        \cup {IntCell(-5), IntCell(0), IntCell(123), FloatCell(15), FloatCell(-1230),
              BoolCell(TRUE), BoolCell(FALSE), NaN, None}

ValueTables ==
    {MakeTable(<<c>>, 1) : c \in ColumnsOver("a", ValueCells, 1)}

InitValue == \E T \in ValueTables : Start(T)

NextValue ==
    \/ CallFormatDocument
    \/ CallCleanSpecialCharacters
    \/ CallFormatPhoneNumber
    \/ CallLowercaseDataframe
    \/ CallLimitColumnSize
    \/ CallerKeeps
    \/ CallerRebinds

SpecValue == InitValue /\ [][NextValue]_vars

\* Rows: a table of up to MaxRows rows, the column "a" holding strings, numbers
\* that are equal as Python values, and missing values, the column "b" the row's
\* number.
RowCells == {StrCell(<<"x">>), StrCell(<<" ", "x", " ", " ">>), IntCell(1), BoolCell(TRUE),
             FloatCell(10), NaN, None}

RowTables ==
    UNION {
        {MakeTable(<<c, [name |-> "b", dtype |-> "int64",
                         vals |-> [i \in 1..n |-> IntCell(i)]]>>, n) :
            c \in ColumnsOver("a", RowCells, n)}
        : n \in 0..MaxRows}

InitRows == \E T \in RowTables : Start(T)

NextRows ==
    \/ CallRemoveDuplicates
    \/ CallFilterByDifferentCharCount
    \/ CallStripDataframe
    \/ CallFilterDataframe
    \/ CallerKeeps
    \/ CallerRebinds

SpecRows == InitRows /\ [][NextRows]_vars

\* Export: a table of k integer columns "c1" .. "ck" and n rows.
ExcelTable(k, n) ==
    [cols |-> [j \in 1..k |-> "c" \o ToString(j)],
     dtypes |-> [j \in 1..k |-> "int64"],
     index |-> RangeIndex(n),
     rows |-> [i \in 1..n |-> [j \in 1..k |-> IntCell(i * j)]]]

InitExcel == \E k \in 0..MaxExcelCols, n \in 0..MaxExcelRows : Start(ExcelTable(k, n))

NextExcel ==
    \/ CallDataframeToExcel
    \/ CallerKeeps

SpecExcel == InitExcel /\ [][NextExcel]_vars

(***************************************************************************)
(* The claims.  In a state reached by a call, prev is the table as it was  *)
(* passed, df the same table after the call, out what the call gave back.  *)
(***************************************************************************)
Called(op) == call.op = op

\* the call named a column the table has
OnColumn == call.column \in Columns(prev)

\* equal as Python values (1 == 1.0 == True), a missing value like itself
SameValue(x, y) == x = y \/ (IsNumber(x) /\ IsNumber(y) /\ Tenths(x) = Tenths(y))

\* the position in T of the row labelled l
PosOf(T, l) == CHOOSE p \in DOMAIN T.index : T.index[p] = l

\* R's rows are rows of T, in T's order
IsSubsequence(R, T) ==
    /\ R.cols = T.cols
    /\ \A k \in DOMAIN R.rows :
        /\ \E p \in DOMAIN T.index : T.index[p] = R.index[k]
        /\ R.rows[k] = T.rows[PosOf(T, R.index[k])]
    /\ \A k, l \in DOMAIN R.rows :
        k < l => PosOf(T, R.index[k]) < PosOf(T, R.index[l])

\* R differs from T in column c at most
SameButColumn(R, T, c) ==
    /\ R.cols = T.cols
    /\ R.index = T.index
    /\ Len(R.rows) = Len(T.rows)
    /\ \A i \in DOMAIN T.rows, j \in DOMAIN T.cols :
        T.cols[j] # c => R.rows[i][j] = T.rows[i][j] /\ R.dtypes[j] = T.dtypes[j]

\* C1: remove_duplicates(T, C), C a column of T, returns a table whose values in
\* C are pairwise distinct, whose rows are a subsequence of T's rows, and in which
\* each row is the first row of T carrying its C-value, every value of C in T
\* being there.
C1_RemoveDuplicates ==
    (Called("remove_duplicates") /\ OnColumn) =>
        /\ out.kind = "table"
        /\ df = prev
        /\ LET R == out.table
               c == call.column
           IN  /\ IsSubsequence(R, prev)
               /\ \A k, l \in DOMAIN R.rows :
                    k # l => ~ SameValue(Column(R, c)[k], Column(R, c)[l])
               /\ \A k \in DOMAIN R.rows :
                    \A q \in DOMAIN prev.rows :
                        q < PosOf(prev, R.index[k])
                            => ~ SameValue(Column(prev, c)[q], Column(R, c)[k])
               /\ \A p \in DOMAIN prev.rows :
                    \E k \in DOMAIN R.rows :
                        SameValue(Column(R, c)[k], Column(prev, c)[p])

\* a call that dropped a duplicate between two rows it kept, 1 and True among the
\* duplicates
C1_Witness ==
    /\ Called("remove_duplicates") /\ OnColumn
    /\ out.kind = "table"
    /\ NRows(prev) = 3
    /\ out.table.index = <<prev.index[1], prev.index[3]>>
    /\ Column(prev, call.column)[1] = IntCell(1)
    /\ Column(prev, call.column)[2] = BoolCell(TRUE)

\* the functions that take a column name, and the failure signal of each
ColumnOps ==
    {"remove_duplicates", "filter_by_different_char_count", "limit_column_size",
     "filter_dataframe", "clean_special_characters", "lowercase_dataframe",
     "format_document", "drop_column", "format_phone_number", "rename_column"}

FailureSignal(op) ==
    IF op \in {"remove_duplicates", "filter_by_different_char_count", "limit_column_size"}
    THEN Raised("ValueError")
    ELSE ReturnedNone

\* C2: called with a column name the table does not have, every function that
\* takes one gives its failure signal and leaves the caller's table as it was.
C2_MissingColumn ==
    (call.op \in ColumnOps /\ ~ OnColumn) =>
        /\ out = FailureSignal(call.op)
        /\ df = prev

\* rename_column called with a missing name on a table the caller got from an
\* earlier call
C2_Witness ==
    /\ Called("rename_column") /\ ~ OnColumn
    /\ out = ReturnedNone
    /\ ncalls = 2
    /\ prev.cols # <<>>

IsMissing(c) == isna(c)

\* d left-padded with zeros to length size, or cut to its first size characters
Fit(d, size) ==
    IF Len(d) < size THEN Zeros(size - Len(d)) \o d ELSE SubSeq(d, 1, size)

DigitsOf(c) == SelectSeq(pystr(c), IsDigit)

NanOrNone == {<<"n", "a", "n">>, <<"n", "o", "n", "e">>}

\* C3 as stated: missing for a missing value, an empty or whitespace-only string,
\* or the strings "nan"/"none" in any letter case
MissingAsStated(c) ==
    \/ isna(c)
    \/ is_str(c) /\ (\A i \in DOMAIN c.s : c.s[i] \in Whitespace)
    \/ is_str(c) /\ lower(c.s) \in NanOrNone

\* C3 as amended: the text is trimmed before it is compared
MissingAsAmended(c) ==
    \/ isna(c)
    \/ lower(strip(pystr(c))) \in NanOrNone \cup {<<>>}

\* the mapping of C3, the text trimmed before the comparison or not
DocumentMapping(trimmed) ==
    (Called("format_document") /\ OnColumn) =>
        /\ out.kind = "table"
        /\ SameButColumn(out.table, prev, call.column)
        /\ \A i \in DOMAIN prev.rows :
            LET v == Column(prev, call.column)[i]
                r == Column(out.table, call.column)[i]
            IN  IF (IF trimmed THEN MissingAsAmended(v) ELSE MissingAsStated(v))
                THEN IsMissing(r)
                ELSE /\ r = StrCell(Fit(DigitsOf(v), call.n))
                     /\ Len(r.s) = call.n
                     /\ \A k \in DOMAIN r.s : IsDigit(r.s[k])

\* C3 (as stated): format_document(T, C, s) maps a missing value, an empty or
\* whitespace-only string and "nan"/"none" in any letter case to missing, and
\* every other value to its digits, padded with '0' or cut to exactly s digits.
C3_AsStated == DocumentMapping(FALSE)

\* C3 (amended): format_document(T, C, s) maps a missing value, and a value whose
\* text with leading and trailing whitespace removed is empty or is "nan"/"none"
\* in any letter case, to missing, and every other value to its digits, padded
\* with '0' or cut to exactly s digits.
C3_FormatDocument == DocumentMapping(TRUE)

\* size 11 on "123456789012" gave its first 11 digits
C3_Witness ==
    /\ Called("format_document") /\ OnColumn
    /\ call.n = 11
    /\ out.kind = "table"
    /\ Column(prev, call.column)[1] =
            StrCell(<<"1", "2", "3", "4", "5", "6", "7", "8", "9", "0", "1", "2">>)
    /\ Column(out.table, call.column)[1] =
            StrCell(<<"1", "2", "3", "4", "5", "6", "7", "8", "9", "0", "1">>)

\* C4: filter_by_different_char_count(T, C, n) returns the rows of T whose
\* stringified C-value has a length other than n, in their order: every row of
\* length n is dropped and every other row kept.
C4_FilterByLength ==
    (Called("filter_by_different_char_count") /\ OnColumn) =>
        /\ out.kind = "table"
        /\ LET R == out.table
               c == call.column
               P == SelectSeq([i \in 1..NRows(prev) |-> i],
                              LAMBDA i : Len(pystr(Column(prev, c)[i])) # call.n)
           IN  /\ R.cols = prev.cols
               /\ R.index = [k \in DOMAIN P |-> prev.index[P[k]]]
               /\ Len(R.rows) = Len(P)
               /\ \A k \in DOMAIN P, j \in DOMAIN prev.cols :
                    IF prev.cols[j] = c
                    THEN R.rows[k][j] = StrCell(pystr(prev.rows[P[k]][j]))
                    ELSE R.rows[k][j] = prev.rows[P[k]][j]

\* count 3 dropped the float 1.0 ("1.0") and NaN ("nan") and kept a row between
\* them
C4_Witness ==
    /\ Called("filter_by_different_char_count") /\ OnColumn
    /\ call.n = 3
    /\ out.kind = "table"
    /\ NRows(prev) = 3
    /\ Column(prev, call.column)[1] = FloatCell(10)
    /\ Column(prev, call.column)[3] = NaN
    /\ out.table.index = <<prev.index[2]>>

\* C5: clean_special_characters(T, C) replaces each string of C by the string
\* with every '&' turned into 'E' and then every character that is no letter,
\* digit or whitespace deleted, and leaves the other values of C, the other
\* columns and the row order as they were.
C5_CleanSpecialCharacters ==
    (Called("clean_special_characters") /\ OnColumn) =>
        /\ out.kind = "table"
        /\ SameButColumn(out.table, prev, call.column)
        /\ \A i \in DOMAIN prev.rows :
            LET v == Column(prev, call.column)[i]
                r == Column(out.table, call.column)[i]
            IN  IF is_str(v)
                THEN r = StrCell(SelectSeq(replace_amp(v.s),
                            LAMBDA ch : IsLetter(ch) \/ IsDigit(ch) \/ ch \in Whitespace))
                ELSE SameValue(r, v)

\* C6: strip_dataframe is idempotent: stripping the table it returned gives that
\* table again.
C6_StripIdempotent ==
    (Called("strip_dataframe") /\ out.kind = "table") =>
        strip_dataframe(out.table).out = out

\* a strip of a text column that trimmed a string and met a number and a missing
\* value
C6_Witness ==
    /\ Called("strip_dataframe")
    /\ out.kind = "table"
    /\ NRows(prev) = 3
    /\ prev.dtypes[1] = "object"
    /\ prev.rows[1][1] = StrCell(<<" ", "x", " ", " ">>)
    /\ out.table.rows[1][1] = StrCell(<<"x">>)
    /\ prev.rows[2][1] = IntCell(1)
    /\ prev.rows[3][1] = None

\* C7: format_phone_number(T, C) replaces each value of C by the digits of its
\* stringified form, in their order, neither padded nor cut.
C7_FormatPhoneNumber ==
    (Called("format_phone_number") /\ OnColumn) =>
        /\ out.kind = "table"
        /\ SameButColumn(out.table, prev, call.column)
        /\ \A i \in DOMAIN prev.rows :
            LET v == Column(prev, call.column)[i]
                r == Column(out.table, call.column)[i]
            IN  /\ r = StrCell(DigitsOf(v))
                /\ Len(r.s) = Cardinality({k \in DOMAIN pystr(v) : IsDigit(pystr(v)[k])})

\* "(11) 98888-7777" became "11988887777"
C7_Witness ==
    /\ Called("format_phone_number") /\ OnColumn
    /\ out.kind = "table"
    /\ Column(prev, call.column)[1] =
            StrCell(<<"(", "1", "1", ")", " ", "9", "8", "8", "8", "8", "-", "7", "7", "7", "7">>)
    /\ Column(out.table, call.column)[1] =
            StrCell(<<"1", "1", "9", "8", "8", "8", "8", "7", "7", "7", "7">>)

\* the letters of spreadsheet column k: A .. Z, AA, AB, ...
RECURSIVE ColumnLetter(_)
ColumnLetter(k) ==
    IF k <= 26 THEN <<UpperSeq[k]>>
    ELSE ColumnLetter((k - 1) \div 26) \o <<UpperSeq[((k - 1) % 26) + 1]>>

\* C8: with no I/O error, dataframe_to_excel on a table of k >= 1 columns and N
\* rows declares the region DataTable from A1 to <letter of column k><N+1> and
\* returns the path; on a table of no columns it returns None.
C8_DataframeToExcel ==
    (Called("dataframe_to_excel") /\ call.io_ok) =>
        IF Len(prev.cols) >= 1
        THEN /\ out = ReturnedPath
             /\ disk.exists
             /\ disk.displayName = "DataTable"
             /\ disk.ref = <<"A", "1", ":">> \o ColumnLetter(Len(prev.cols))
                                \o IntStr(NRows(prev) + 1)
        ELSE out = ReturnedNone

\* C9: format_document, limit_column_size and format_phone_number work on a copy:
\* whatever the call does, the caller's table is as it was; on a table (its column
\* names distinct) a table is returned; and a returned table differs from the
\* caller's in the column named at most.
C9_WorkOnCopy ==
    (call.op \in {"format_document", "limit_column_size", "format_phone_number"}
        /\ OnColumn) =>
        /\ df = prev
        /\ UniqueColumns(prev) => out.kind = "table"
        /\ out.kind = "table" => SameButColumn(out.table, prev, call.column)

\* limit_column_size cut a value in the table it returned
C9_Witness ==
    /\ Called("limit_column_size") /\ OnColumn
    /\ out.kind = "table"
    /\ df = prev
    /\ \E i \in DOMAIN prev.rows :
        /\ is_str(Column(prev, call.column)[i])
        /\ Len(Column(out.table, call.column)[i].s) < Len(Column(prev, call.column)[i].s)

\* C10: the column names of every table a successful call returns, and of the
\* caller's table, are pairwise distinct.
C10_UniqueColumns ==
    /\ UniqueColumns(df)
    /\ out.kind = "table" => UniqueColumns(out.table)

=============================================================================
